---- MODULE Spec2Model ----
(***************************************************************************)
(* State-machine model of the resume builder web application (src/app.py). *)
(*                                                                         *)
(* Each request slot runs one handler (index POST or delete_resume) as a   *)
(* sequence of steps; a step boundary is placed at every access to state   *)
(* shared between requests: users.json, the remote resumes / profiles      *)
(* tables, the generation service and the PDF folder.                      *)
(*                                                                         *)
(* Strings are sequences of one-character strings.  Python None is the     *)
(* one-element sequence NoneT, so that it is comparable with strings.      *)
(***************************************************************************)
EXTENDS Integers, Sequences, FiniteSets, TLC

\* ---------------------------------------------------------------- bounds
\* Number of index POST submissions of one run (each gets a fresh uuid).
MaxSubs == 2
\* Longest text the PDF extraction returns.
MaxTextLen == 2
\* Longest markup (in tokens) the generation service returns.
MaxHtmlLen == 2
\* Most rows the remote reviews table receives.
MaxReviews == 2
\* Longest free part (in atoms) of a contact paragraph.
MaxContactLen == 3
\* Longest document (in tokens) around contact paragraphs.
MaxDocLen == 4

\* Cap on the stored resume text: int(os.getenv('MAX_RESUME_TEXT', 50000)),
\* here a deployment that sets it to 1, so that extracted texts exceed it.
MAX_RESUME_TEXT == 1

Slots == {1, 2}
Accounts == {"u1", "u2"}
Filenames == {"f1", "f2"}

\* session.get('user_id') of a caller that is not logged in
Anon == "anon"
\* Python None where a string is expected
NoneT == <<"None">>
\* a dict key that is absent (dict.get gives None)
NoName == "None"

\* ------------------------------------------------------------ text model
\* "a": an ordinary character; "z": NUL, a member of the control class
\* [\x00-\x08\x0B-\x1F\x7F]; " ": a space (whitespace); "p": a character of
\* pasted text; "j": a character of a job description.
ControlChars == {"z"}
Whitespace == {" "}

SeqsUpTo(S, n) == UNION {[1..k -> S] : k \in 0..n}

\* what extract_pdf_text can return: None, or the text of the pages
ExtractedVals == {NoneT} \cup SeqsUpTo({"a", "z"}, MaxTextLen)
\* request.form.get("user-data")
PastedVals == {NoneT, <<>>, <<"p">>}
\* request.form.get("job-post")
JobVals == {NoneT, <<>>, <<"j">>}

\* Python truthiness of an optional string
Truthy(t) == t # NoneT /\ t # <<>>

\* `x or ""`
OrEmpty(t) == IF Truthy(t) THEN t ELSE <<>>

Min(a, b) == IF a < b THEN a ELSE b

\* re.sub(r'[\x00-\x08\x0B-\x1F\x7F]', ' ', t)
Sanitize(t) == [i \in 1..Len(t) |-> IF t[i] \in ControlChars THEN " " ELSE t[i]]

\* faulty variant of Cap: the text is stored whole
CapNone(t) == t

\* t[:MAX_RESUME_TEXT]
Cap(t) == SubSeq(t, 1, Min(Len(t), MAX_RESUME_TEXT))

RECURSIVE LStrip(_)
LStrip(t) == IF t # <<>> /\ Head(t) \in Whitespace THEN LStrip(Tail(t)) ELSE t

RECURSIVE RStrip(_)
RStrip(t) ==
    IF t # <<>> /\ t[Len(t)] \in Whitespace THEN RStrip(SubSeq(t, 1, Len(t) - 1)) ELSE t

\* str.strip()
Strip(t) == RStrip(LStrip(t))

\* t.replace('\x00', '')
StripNul(t) == IF t = NoneT THEN t ELSE SelectSeq(t, LAMBDA c : c # "z")

IsPrefix(p, t) == Len(p) <= Len(t) /\ SubSeq(t, 1, Len(p)) = p

\* ---------------------------------------------------------- markup model
\* Markup is a sequence of tokens, each standing for a substring:
\*   "IMGPH"   <img src="[[PROFILE_PHOTO]]" class="profile-pic" />  (as prompted)
\*   "PH"      [[PROFILE_PHOTO]] embedded in any other way
\*   "H1"      <h1>
\*   "CONTACT" a <p class="contact-info">...</p> paragraph
\*   "FENCE"   ```html or ```
\* and, produced by the pipeline:
\*   "IMGB64"  <img src="data:image/jpeg;base64,..." class="profile-pic" />
\*   "B64"     the data URI where a bare PH stood
\*   "IMGTAG"  the force-injected <img ... style=... /><br>
\*   "CONTACT_ICONS" the contact paragraph after inject_contact_icons
MarkupTokens == {"IMGPH", "PH", "H1", "CONTACT"}

\* response.choices[0].message.content: markup, bare or wrapped in code fences
ServiceContents ==
    SeqsUpTo(MarkupTokens, MaxHtmlLen)
    \cup {<<"FENCE">> \o b \o <<"FENCE">> : b \in SeqsUpTo(MarkupTokens, MaxHtmlLen - 1)}

\* the literal [[PROFILE_PHOTO]] occurs in these tokens
PlaceholderTokens == {"IMGPH", "PH"}

\* '[[PROFILE_PHOTO]]' in html
HasPlaceholder(html) == \E i \in 1..Len(html) : html[i] \in PlaceholderTokens

RECURSIVE Flatten(_)
Flatten(ss) == IF ss = <<>> THEN <<>> ELSE Head(ss) \o Flatten(Tail(ss))

\* every token markup can hold at some step of the pipeline
AllTokens == MarkupTokens \cup {"IMGB64", "B64", "IMGTAG", "CONTACT_ICONS"}

\* markup with every token replaced by the token sequence f gives for it
MapTokens(html, f) == Flatten([i \in 1..Len(html) |-> f[html[i]]])

\* re.sub(r'```html|```', '', content).strip()
StripFences(content) == SelectSeq(content, LAMBDA t : t # "FENCE")

\* html.replace('[[PROFILE_PHOTO]]', base64_photo)
ReplacePlaceholder(html) ==
    MapTokens(html, [t \in AllTokens |-> IF t = "IMGPH" THEN <<"IMGB64">>
                                          ELSE IF t = "PH" THEN <<"B64">> ELSE <<t>>])

\* html.replace('<h1>', f'{img_tag}<h1>')
ForceInject(html) ==
    MapTokens(html, [t \in AllTokens |-> IF t = "H1" THEN <<"IMGTAG", "H1">> ELSE <<t>>])

\* faulty variant of RemovePlaceholderImg: replace(.., '', 1)
RemoveFirstPlaceholderImg(html) ==
    IF \E i \in 1..Len(html) : html[i] = "IMGPH"
    THEN LET i == CHOOSE k \in 1..Len(html) :
                     html[k] = "IMGPH" /\ \A m \in 1..(k - 1) : html[m] # "IMGPH"
         IN  SubSeq(html, 1, i - 1) \o SubSeq(html, i + 1, Len(html))
    ELSE html

\* html.replace('<img src="[[PROFILE_PHOTO]]" class="profile-pic" />', '')
RemovePlaceholderImg(html) == SelectSeq(html, LAMBDA t : t # "IMGPH")

\* faulty variant of ImageInjection: `if base64_photo != ""`; with None the
\* replace raises inside the try and the markup stays as it was
ImageInjectionNotEmpty(html, photo) ==
    IF photo = "data"
    THEN IF HasPlaceholder(html) THEN ReplacePlaceholder(html) ELSE ForceInject(html)
    ELSE IF photo = "None" THEN html
    ELSE RemovePlaceholderImg(html)

\* step 2 of the pipeline: image injection; photo is base64_photo
ImageInjection(html, photo) ==
    IF photo = "data"
    THEN IF HasPlaceholder(html) THEN ReplacePlaceholder(html) ELSE ForceInject(html)
    ELSE RemovePlaceholderImg(html)

\* inject_contact_icons: rewrites the contact-info paragraphs only
InjectContactIcons(html) ==
    IF html = <<>> THEN html
    ELSE MapTokens(html, [t \in AllTokens |->
                            IF t = "CONTACT" THEN <<"CONTACT_ICONS">> ELSE <<t>>])

\* process_profile_photo: a data URI, or None on any exception; "" is the
\* initial base64_photo of a submission without a photo
PhotoInputs == {"none", "bad", "good"}
ProcessProfilePhoto(p) == IF p = "good" THEN "data" ELSE "None"
Base64Photo(p) == IF p = "none" THEN "" ELSE ProcessProfilePhoto(p)

\* ------------------------------------------------------ account store
\* users.json: account id -> {resume_text, resume_name}.  An account without
\* an entry and an entry without keys are read alike (user and user.get(..)).
NoEntry == [resume_text |-> NoneT, resume_name |-> NoName]
EmptyUsers == [u \in Accounts |-> NoEntry]

\* set_user_resume_text(user_id, resume_text, filename) applied to a loaded dict
SetUserResumeText(us, user_id, resume_text, filename) ==
    IF resume_text = NoneT
    THEN [us EXCEPT ![user_id] = NoEntry]
    ELSE [us EXCEPT ![user_id] =
            [resume_text |-> Cap(Sanitize(resume_text)),
             resume_name |-> IF filename # "" THEN filename ELSE @.resume_name]]

\* remove_user_resume(user_id): the second definition replaces the first at
\* import; it deletes the key 'resume', which no code of this version sets.
RemoveUserResume(us, user_id) == [us EXCEPT ![user_id] = @]

\* user and user.get('resume_text')
HasSavedText(us, user_id) == Truthy(us[user_id].resume_text)

\* user and (user.get('resume_text') or user.get('resume_name'))
HasSavedAnything(us, user_id) ==
    Truthy(us[user_id].resume_text) \/ us[user_id].resume_name # NoName

\* resume_text of the row inserted in resumes: sanitize, strip, cap
RowText(extracted) == Cap(Strip(Sanitize(OrEmpty(extracted))))

\* A row of the resumes table: the columns this program reads back or filters
\* on (original_filename, storage_path, mime_type and size are write-only).
NewRow(id, user_id, extracted) ==
    [id |-> id, user_id |-> user_id, resume_text |-> RowText(extracted),
     is_active |-> TRUE]

\* update({'is_active': False}).eq('user_id', u).eq('is_active', True)
DeactivateRows(rows, u) ==
    {IF r.user_id = u THEN [r EXCEPT !.is_active = FALSE] ELSE r : r \in rows}

\* select('resume_text').eq('user_id', u).eq('is_active', True)
ActiveRows(rows, u) == {r \in rows : r.user_id = u /\ r.is_active}

\* -------------------------------------------------------------- responses
MissingError == "Missing data or job post."
MissingFlash == "Missing data or job post. Upload a PDF or paste your resume text, and include a job description."
SystemError == "System Error: An internal error occurred"
CredentialsFlash == "AI service unavailable or invalid credentials. Check API configuration (OPENROUTER_API_KEY / OPENAI keys)."
RemovedFlash == "Saved resume removed"

NoResp == [status |-> "none", error |-> "", flash |-> "", filename |-> 0]

\* An exception: where it was raised, whether it is an
\* openai.AuthenticationError, and what its repr mentions.
NoErr == [at |-> "", auth |-> FALSE, text |-> ""]
ErrTexts == {"User not found", "401", "other"}
ServiceErrors == [at : {"generate"}, auth : BOOLEAN, text : ErrTexts]
\* Exception('PDF generation failed (pisa error)')
RenderError == [at |-> "render", auth |-> FALSE, text |-> "other"]
\* what create_pdf raises for each outcome that is not "ok"; the repr of the
\* OSError of open() quotes the path, whose uuid hex may contain 401
RenderErrors(out) ==
    IF out = "err" THEN {RenderError}
    ELSE {[RenderError EXCEPT !.text = t] : t \in {"401", "other"}}

\* (OpenAIAuth and isinstance(e, OpenAIAuth)) or 'User not found' in repr or '401' in repr
LooksLikeAuth(e) == e.auth \/ e.text \in {"User not found", "401"}

\* faulty variant of ErrorFlash: the upstream text is flashed
ErrorFlashEcho(e) == e.text

\* the flash of the except branch of index
ErrorFlash(e) == IF LooksLikeAuth(e) THEN CredentialsFlash ELSE SystemError

\* ------------------------------------------------------------------ state
VARIABLES
    req,        \* per request slot: the handler's position and locals
    users,      \* contents of users.json
    resumes,    \* rows of the remote resumes table
    files,      \* PDF folder: the submission ids whose resume_<uuid>.pdf exists
    nsub,       \* number of index submissions started (source of uuids)
    threads,    \* deployment: how many requests the server handles at once
    ufile,      \* the bytes of users.json: "json" (the dict `users`), "empty"
                \* (truncated by open(.., 'w'), not yet dumped) or "garbled"
    reviews,    \* rows of the remote reviews table, in insertion order
    ci          \* a call of inject_contact_icons: its argument, the icon files, its result

vars == <<req, users, resumes, files, nsub, threads, ufile, reviews, ci>>

\* locals of a request that has not started
Fresh ==
    [pc |-> "idle", route |-> "", sid |-> 0, user_id |-> Anon,
     upload |-> "", extracted |-> NoneT, saved_resume |-> FALSE,
     final_data |-> <<>>, retained |-> NoneT, job_post |-> NoneT,
     photo |-> "", html |-> <<>>, lusers |-> EmptyUsers, inserted |-> 0,
     e |-> NoErr, resp |-> NoResp, gen_calls |-> 0, render_calls |-> 0,
     touched |-> FALSE, reads |-> 0, writes |-> 0,
     feedback |-> NoneT, filename |-> NoName]

\* no call of inject_contact_icons under observation
NoCall == [pc |-> "none", html |-> <<>>, icons |-> {}, out |-> <<>>]

\* json.load(f) of load_users succeeds only on a file that holds a dict
Readable == ufile = "json"

\* a request is accepted by the first free slot, if a worker is free
Accepts(s) ==
    /\ req[s].pc = "idle"
    /\ \A t \in Slots : t < s => req[t].pc # "idle"
    /\ Cardinality({t \in Slots : req[t].pc # "idle"}) < threads

InitStores ==
    /\ req = [s \in Slots |-> Fresh]
    /\ users = EmptyUsers
    /\ resumes = {}
    /\ files = {}
    /\ nsub = 0
    /\ ufile = "json"
    /\ reviews = <<>>

\* a server that handles one request at a time
Init == InitStores /\ threads = 1 /\ ci = NoCall

\* locals that are dead once final_data is resolved
ForgetSources(r) ==
    [r EXCEPT !.upload = "", !.extracted = NoneT, !.saved_resume = FALSE,
              !.retained = NoneT, !.reads = 0, !.writes = 0]

\* locals that are dead once the prompt has been built
ForgetInputs(r) ==
    [ForgetSources(r) EXCEPT !.final_data = <<>>, !.job_post = NoneT]

\* an exception no handler catches: Flask answers 500
Abort500(r) ==
    [ForgetInputs(r) EXCEPT !.pc = "done", !.lusers = EmptyUsers,
                            !.resp = [NoResp EXCEPT !.status = "http500"]]

\* the except branch of index: flash, log, render the error page
ExceptHandler(r, err) ==
    [r EXCEPT !.pc = "done", !.e = err, !.html = <<>>, !.photo = "",
              !.resp = [status |-> "system_error", error |-> SystemError,
                        flash |-> ErrorFlash(err), filename |-> 0]]

\* faulty variant of UploadBranchPc: the upload is remembered for any caller
UploadBranchAlways(user_id) == "set_load"

\* where the upload branch goes after extraction: `if user_id:`
UploadBranchPc(user_id) == IF user_id # Anon THEN "set_load" ELSE "resolve"

\* the branch taken on the form data: a new upload, the saved resume, or neither
Dispatch(r) ==
    IF r.upload # ""
    THEN [r EXCEPT !.final_data = IF Truthy(r.extracted) THEN r.extracted ELSE <<>>,
                   !.pc = UploadBranchPc(r.user_id)]
    ELSE IF r.user_id # Anon /\ r.saved_resume
         THEN [r EXCEPT !.final_data = NoneT, !.pc = "fetch"]
         ELSE [r EXCEPT !.final_data = <<>>, !.pc = "resolve"]

\* index, up to the first step after get_user: session, saved_resume, form
\* data, extraction of the upload
IndexStart(s, callers, names, extractions) ==
    /\ Accepts(s)
    /\ nsub < MaxSubs
    /\ \E uid \in callers, upload \in names \cup {""},
          extracted \in extractions, readOk \in BOOLEAN :
        /\ upload = "" => extracted = NoneT
        /\ uid = Anon => readOk
        /\ (uid # Anon /\ readOk) => Readable
        /\ LET r == [Fresh EXCEPT !.route = "index", !.sid = nsub + 1,
                                  !.user_id = uid]
               form == [r EXCEPT !.upload = upload, !.extracted = extracted,
                                 !.reads = IF uid # Anon THEN 1 ELSE 0,
                                 !.saved_resume =
                                     uid # Anon /\ HasSavedText(users, uid)]
           IN  req' = [req EXCEPT ![s] =
                         IF readOk THEN Dispatch(form) ELSE Abort500(r)]
    /\ nsub' = nsub + 1
    /\ UNCHANGED <<users, resumes, files, threads, ufile, reviews, ci>>

\* set_user_resume_text: load_users(); a failure is caught by index
SetLoad(s) ==
    /\ req[s].pc = "set_load"
    /\ \E ok \in BOOLEAN :
        /\ ok => Readable
        /\ req' = [req EXCEPT ![s] =
                     IF ok THEN [@ EXCEPT !.pc = "set_save", !.lusers = users,
                                          !.reads = @ + 1]
                     ELSE [@ EXCEPT !.pc = "deactivate", !.reads = @ + 1]]
    /\ UNCHANGED <<users, resumes, files, nsub, threads, ufile, reviews, ci>>

\* what json.dump and the close of save_users leave on disk: the dict, or,
\* when another writer dumped into the file since this one truncated it,
\* possibly the bytes of both (two unsynchronised writers of one file)
DumpOutcomes == IF ufile = "empty" THEN {"json"} ELSE {"json", "garbled"}

\* set_user_resume_text: update the loaded dict; save_users() opens
\* users.json for writing, which truncates it; a failure is caught by index
SetSave(s) ==
    /\ req[s].pc = "set_save"
    /\ \E ok \in BOOLEAN :
        /\ ufile' = IF ok THEN "empty" ELSE ufile
        /\ req' = [req EXCEPT ![s] =
                     IF ok THEN [@ EXCEPT !.pc = "set_dump"]
                     ELSE [@ EXCEPT !.pc = "deactivate", !.lusers = EmptyUsers]]
    /\ UNCHANGED <<users, resumes, files, nsub, threads, reviews, ci>>

\* save_users: json.dump and close; then saved_resume = True
SetDump(s) ==
    /\ req[s].pc = "set_dump"
    /\ \E out \in DumpOutcomes :
        LET r == req[s]
            new == SetUserResumeText(r.lusers, r.user_id, OrEmpty(r.extracted), r.upload)
        IN  /\ users' = IF out = "json" THEN new ELSE users
            /\ ufile' = out
            /\ req' = [req EXCEPT ![s] =
                         [@ EXCEPT !.pc = "deactivate", !.lusers = EmptyUsers,
                                   !.saved_resume = TRUE,
                                   !.writes = @ + 1,
                                   !.touched = @ \/ out # "json" \/ new # users]]
    /\ UNCHANGED <<resumes, files, nsub, threads, reviews, ci>>

\* mark the previous active resumes of the account inactive; failures ignored
Deactivate(s) ==
    /\ req[s].pc = "deactivate"
    /\ \E ok \in BOOLEAN :
        LET new == DeactivateRows(resumes, req[s].user_id)
        IN  /\ resumes' = IF ok THEN new ELSE resumes
            /\ req' = [req EXCEPT ![s] =
                         [@ EXCEPT !.pc = "insert",
                                   !.touched = @ \/ (ok /\ new # resumes)]]
    /\ UNCHANGED <<users, files, nsub, threads, ufile, reviews, ci>>

\* insert the new active row; the response may carry the row or not
Insert(s) ==
    /\ req[s].pc = "insert"
    /\ \E out \in {"fail", "row", "nodata"} :
        LET r == req[s]
        IN  /\ resumes' = IF out = "fail" THEN resumes
                          ELSE resumes \cup {NewRow(r.sid, r.user_id, r.extracted)}
            /\ req' = [req EXCEPT ![s] =
                         [@ EXCEPT !.pc = IF out = "row" THEN "upsert" ELSE "resolve",
                                   !.inserted = IF out = "row" THEN r.sid ELSE 0,
                                   !.touched = @ \/ out # "fail"]]
    /\ UNCHANGED <<users, files, nsub, threads, ufile, reviews, ci>>

\* faulty variant of Upsert: the local text is read back after the upload
\* was stored
UpsertThenFallback(s) ==
    /\ req[s].pc = "upsert"
    /\ req' = [req EXCEPT ![s] = [@ EXCEPT !.pc = "fallback", !.inserted = 0]]
    /\ UNCHANGED <<users, resumes, files, nsub, threads, ufile, reviews, ci>>

\* profiles.upsert({'id': user_id, 'current_resume': inserted['id']}); no
\* code reads profiles.current_resume, so the table is not part of the state
Upsert(s) ==
    /\ req[s].pc = "upsert"
    /\ \E ok \in BOOLEAN :
        req' = [req EXCEPT ![s] =
                  [@ EXCEPT !.pc = "resolve", !.inserted = 0,
                            !.touched = @ \/ ok]]
    /\ UNCHANGED <<users, resumes, files, nsub, threads, ufile, reviews, ci>>

\* final_data after the remote select returned `text` (None: no row, or error)
AfterFetch(r, text) ==
    [r EXCEPT !.retained = text,
              !.final_data = IF Truthy(text) THEN text ELSE NoneT,
              !.pc = IF Truthy(text) THEN "resolve" ELSE "fallback"]

\* saved-resume branch: fetch the active resume row (limit(1), no order);
\* a failure is caught and logged
Fetch(s) ==
    /\ req[s].pc = "fetch"
    /\ LET r == req[s]
           rows == ActiveRows(resumes, r.user_id)
       IN  \/ req' = [req EXCEPT ![s] = AfterFetch(r, NoneT)]
           \/ \E row \in rows :
                req' = [req EXCEPT ![s] = AfterFetch(r, row.resume_text)]
    /\ UNCHANGED <<users, resumes, files, nsub, threads, ufile, reviews, ci>>

\* final_data after the fallback get_user returned the local text
AfterFallback(r, text) ==
    [r EXCEPT !.retained = text,
              !.final_data = IF Truthy(text) THEN text ELSE @,
              !.pc = "resolve"]

\* saved-resume branch: fall back to the text in users.json (not in a try)
Fallback(s) ==
    /\ req[s].pc = "fallback"
    /\ \E ok \in BOOLEAN :
        /\ ok => Readable
        /\ req' = [req EXCEPT ![s] =
                     IF ok THEN AfterFallback([@ EXCEPT !.reads = @ + 1],
                                              users[@.user_id].resume_text)
                     ELSE Abort500(@)]
    /\ UNCHANGED <<users, resumes, files, nsub, threads, ufile, reviews, ci>>

\* faulty variant of ResolveFinalData: pasted text wins when there is some
ResolveFinalDataPasted(final_data, text_input) ==
    IF Truthy(text_input) THEN text_input ELSE final_data

\* `if not final_data: final_data = text_input`
ResolveFinalData(final_data, text_input) ==
    IF Truthy(final_data) THEN final_data ELSE text_input

\* faulty variant of MissingInput: the job description is not tested
MissingInputDataOnly(final_data, job_post) == ~Truthy(final_data)

\* `if not final_data or not job_post`
MissingInput(final_data, job_post) == ~Truthy(final_data) \/ ~Truthy(job_post)

\* faulty variant of InputError: the validation does not return
InputErrorContinue(r) == [r EXCEPT !.pc = "assemble"]

\* the input-error response
InputError(r) ==
    [r EXCEPT !.pc = "done", !.photo = "",
              !.resp = [status |-> "input_error", error |-> MissingError,
                        flash |-> MissingFlash, filename |-> 0]]

\* pasted-text fallback, photo processing, validation of the inputs
Resolve(s) ==
    /\ req[s].pc = "resolve"
    /\ \E text_input \in PastedVals, job_post \in JobVals, p \in PhotoInputs :
        LET fd == ResolveFinalData(req[s].final_data, text_input)
            r == [ForgetSources(req[s]) EXCEPT
                     !.job_post = job_post, !.final_data = fd,
                     !.photo = Base64Photo(p)]
        IN  req' = [req EXCEPT ![s] =
                      IF MissingInput(fd, job_post) THEN InputError(r)
                      ELSE [r EXCEPT !.pc = "sanitize"]]
    /\ UNCHANGED <<users, resumes, files, nsub, threads, ufile, reviews, ci>>

\* step 1, first part: NUL bytes are removed from final_data and job_post
SanitizeInputs(s) ==
    /\ req[s].pc = "sanitize"
    /\ req' = [req EXCEPT ![s] =
                 [@ EXCEPT !.pc = "generate", !.final_data = StripNul(@),
                           !.job_post = StripNul(@)]]
    /\ UNCHANGED <<users, resumes, files, nsub, threads, ufile, reviews, ci>>

\* faulty variant of OnServiceError: the error is swallowed, the content is empty
OnServiceErrorSwallow(r, err) ==
    [r EXCEPT !.e = err, !.pc = "assemble", !.html = <<>>]

\* faulty variant of OnServiceError: the call is made again
OnServiceErrorRetry(r, err) == [r EXCEPT !.pc = "generate"]

\* generate_resume_content re-raises a service error (`raise e`), index
\* re-raises it (`raise`) and its except branch answers
OnServiceError(r, err) == ExceptHandler(r, err)

\* step 1, second part: generate_resume_content(final_data, job_post) returns
\* the content without code fences, or the service fails
Generate(s) ==
    /\ req[s].pc = "generate"
    /\ LET r == [ForgetInputs(req[s]) EXCEPT !.gen_calls = @ + 1]
       IN  \/ \E content \in ServiceContents :
                req' = [req EXCEPT ![s] =
                          [r EXCEPT !.pc = "assemble", !.html = StripFences(content)]]
           \/ \E err \in ServiceErrors :
                req' = [req EXCEPT ![s] = OnServiceError(r, err)]
    /\ UNCHANGED <<users, resumes, files, nsub, threads, ufile, reviews, ci>>

\* steps 2 and 3: image injection, then inject_contact_icons
Assemble(s) ==
    /\ req[s].pc = "assemble"
    /\ req' = [req EXCEPT ![s] =
                 [@ EXCEPT
                     !.pc = "render", !.photo = "",
                     !.html = InjectContactIcons(ImageInjection(@, req[s].photo))]]
    /\ UNCHANGED <<users, resumes, files, nsub, threads, ufile, reviews, ci>>

\* create_pdf outcomes: "ok" pisa reports no error; "err" pisa reports an
\* error after open(output_path, "wb") created the file; "open_fail" open raises
RenderOutcomes == {"ok", "err", "open_fail"}

\* the PDF folder after create_pdf(html, path) ended with `out`
FilesAfterCreatePdf(fs, sid, out) == IF out = "open_fail" THEN fs ELSE fs \cup {sid}

\* the success response of index
Rendered(r) ==
    [r EXCEPT !.pc = "done", !.html = <<>>,
              !.resp = [status |-> "rendered", error |-> "", flash |-> "",
                        filename |-> r.sid]]

\* step 4: create the PDF; `not ok` raises, as does a failing open
Render(s) ==
    /\ req[s].pc = "render"
    /\ \E out \in RenderOutcomes :
        LET r == [req[s] EXCEPT !.render_calls = @ + 1]
        IN  /\ files' = FilesAfterCreatePdf(files, r.sid, out)
            /\ \/ /\ out = "ok"
                  /\ req' = [req EXCEPT ![s] = Rendered(r)]
               \/ /\ out # "ok"
                  /\ \E err \in RenderErrors(out) :
                        req' = [req EXCEPT ![s] = ExceptHandler(r, err)]
    /\ UNCHANGED <<users, resumes, nsub, threads, ufile, reviews, ci>>

\* the redirect response of delete_resume
Redirect(r, flash) ==
    [r EXCEPT !.pc = "done", !.lusers = EmptyUsers,
              !.resp = [NoResp EXCEPT !.status = "redirect", !.flash = flash]]

\* delete_resume up to the test of the saved resume (get_user is not in a try)
DeleteStart(s, callers) ==
    /\ Accepts(s)
    /\ \E uid \in callers, ok \in BOOLEAN :
        /\ uid = Anon => ok
        /\ (uid # Anon /\ ok) => Readable
        /\ LET r == [Fresh EXCEPT !.route = "delete", !.user_id = uid]
           IN  req' = [req EXCEPT ![s] =
                         IF uid = Anon THEN Redirect(r, "")
                         ELSE IF ~ok THEN Abort500(r)
                         ELSE IF HasSavedAnything(users, uid)
                              THEN [r EXCEPT !.pc = "rm_load"]
                              ELSE Redirect(r, "")]
    /\ UNCHANGED <<users, resumes, files, nsub, threads, ufile, reviews, ci>>

\* remove_user_resume: load_users() (not in a try)
RemoveLoad(s) ==
    /\ req[s].pc = "rm_load"
    /\ \E ok \in BOOLEAN :
        /\ ok => Readable
        /\ req' = [req EXCEPT ![s] =
                     IF ok THEN [@ EXCEPT !.pc = "rm_save", !.lusers = users]
                     ELSE Abort500(@)]
    /\ UNCHANGED <<users, resumes, files, nsub, threads, ufile, reviews, ci>>

\* remove_user_resume: drop the key; save_users() opens users.json for
\* writing, which truncates it (not in a try)
RemoveSave(s) ==
    /\ req[s].pc = "rm_save"
    /\ \E ok \in BOOLEAN :
        /\ ufile' = IF ok THEN "empty" ELSE ufile
        /\ req' = [req EXCEPT ![s] =
                     IF ok THEN [@ EXCEPT !.pc = "rm_dump"] ELSE Abort500(@)]
    /\ UNCHANGED <<users, resumes, files, nsub, threads, reviews, ci>>

\* save_users: json.dump and close
RemoveDump(s) ==
    /\ req[s].pc = "rm_dump"
    /\ \E out \in DumpOutcomes :
        LET r == req[s]
        IN  /\ users' = IF out = "json" THEN RemoveUserResume(r.lusers, r.user_id)
                        ELSE users
            /\ ufile' = out
            /\ req' = [req EXCEPT ![s] =
                         [@ EXCEPT !.pc = "rm_deactivate", !.lusers = EmptyUsers]]
    /\ UNCHANGED <<resumes, files, nsub, threads, reviews, ci>>

\* delete_resume: deactivate the active rows (failures ignored), flash, redirect
DeleteDeactivate(s) ==
    /\ req[s].pc = "rm_deactivate"
    /\ \E ok \in BOOLEAN :
        /\ resumes' = IF ok THEN DeactivateRows(resumes, req[s].user_id) ELSE resumes
        /\ req' = [req EXCEPT ![s] = Redirect(@, RemovedFlash)]
    /\ UNCHANGED <<users, files, nsub, threads, ufile, reviews, ci>>

\* the response is sent and the request context torn down
Close(s) ==
    /\ req[s].pc = "done"
    /\ req' = [req EXCEPT ![s] = Fresh]
    /\ UNCHANGED <<users, resumes, files, nsub, threads, ufile, reviews, ci>>

\* who calls: a logged-in account and callers without a session
Callers == {"u1", Anon}

Next ==
    \E s \in Slots :
        \/ IndexStart(s, Callers, Filenames, ExtractedVals)
        \/ SetLoad(s)
        \/ SetSave(s)
        \/ SetDump(s)
        \/ Deactivate(s)
        \/ Insert(s)
        \/ Upsert(s)
        \/ Fetch(s)
        \/ Fallback(s)
        \/ Resolve(s)
        \/ SanitizeInputs(s)
        \/ Generate(s)
        \/ Assemble(s)
        \/ Render(s)
        \/ DeleteStart(s, Callers)
        \/ RemoveLoad(s)
        \/ RemoveSave(s)
        \/ RemoveDump(s)
        \/ DeleteDeactivate(s)
        \/ Close(s)

Spec == Init /\ [][Next]_vars

\* ------------------------------------------------- concurrent submissions
\* The development server (app.run) handles each request in a thread of its
\* own: two requests are in flight at once and interleave at every step.
InitConc == InitStores /\ threads = 2 /\ ci = NoCall

\* the text extract_pdf_text finds in each uploaded document
TextOf(name) == IF name = "f1" THEN <<"a">> ELSE <<"z">>

\* Concurrent uploads of one logged-in account, in an environment that does
\* not fail by itself: every document is extracted, the disk and the remote
\* tables answer, the form is complete, the service and the renderer
\* succeed.  What fails is what the other request makes fail.
NextConc ==
    \E s \in Slots :
        \/ /\ IndexStart(s, {"u1"}, Filenames, {TextOf(f) : f \in Filenames})
           /\ req'[s].pc # "done" => req'[s].extracted = TextOf(req'[s].upload)
           /\ Readable => req'[s].pc # "done"
        \/ SetLoad(s) /\ (Readable => req'[s].pc = "set_save")
        \/ SetSave(s) /\ req'[s].pc = "set_dump"
        \/ SetDump(s)
        \/ Deactivate(s) /\ resumes' = DeactivateRows(resumes, req[s].user_id)
        \/ Insert(s) /\ req'[s].pc = "upsert"
        \/ Upsert(s) /\ req'[s].touched
        \/ /\ Resolve(s)
           /\ req'[s].pc = "sanitize"
           /\ req'[s].job_post = <<"j">>
           /\ req'[s].photo = ""
        \/ SanitizeInputs(s)
        \/ Generate(s) /\ req'[s].pc = "assemble" /\ req'[s].html = <<"H1">>
        \/ Assemble(s)
        \/ Render(s) /\ req'[s].resp.status = "rendered"
        \/ Close(s)

SpecConc == InitConc /\ [][NextConc]_vars

\* Concurrent uploads of two logged-in accounts, in the same environment:
\* a request that arrives while another is in flight is of the other account.
NextAccounts ==
    \E s \in Slots :
        \/ /\ IndexStart(s, Accounts, Filenames, {TextOf(f) : f \in Filenames})
           /\ req'[s].pc # "done" => req'[s].extracted = TextOf(req'[s].upload)
           /\ Readable => req'[s].pc # "done"
           /\ \A t \in Slots \ {s} :
                  req[t].pc # "idle" => req[t].user_id # req'[s].user_id
        \/ SetLoad(s) /\ (Readable => req'[s].pc = "set_save")
        \/ SetSave(s) /\ req'[s].pc = "set_dump"
        \/ SetDump(s)
        \/ Deactivate(s) /\ resumes' = DeactivateRows(resumes, req[s].user_id)
        \/ Insert(s) /\ req'[s].pc = "upsert"
        \/ Upsert(s) /\ req'[s].touched
        \/ /\ Resolve(s)
           /\ req'[s].pc = "sanitize"
           /\ req'[s].job_post = <<"j">>
           /\ req'[s].photo = ""
        \/ SanitizeInputs(s)
        \/ Generate(s) /\ req'[s].pc = "assemble" /\ req'[s].html = <<"H1">>
        \/ Assemble(s)
        \/ Render(s) /\ req'[s].resp.status = "rendered"
        \/ Close(s)

SpecAccounts == InitConc /\ [][NextAccounts]_vars

\* ------------------------------------------------- contact paragraph model
\* The text of a contact paragraph is a sequence of atoms, each standing
\* for a substring that the four patterns of repl treat uniformly:
\*   "w"  letters ("john")            "n"  a run of 8 digits ("12345678")
\*   "@"                              "d"  a domain name ("mail.com")
\*   "li" "linkedin.com"              "LI" the word "LinkedIn"
\*   "gh" "github.com"                "GH" the word "GitHub"
\*   "/"  a slash    " "  a blank     "|"  the separator
\* Inserted markup is a sequence of tokens:
\*   "<S>"  <span class="contact-item">      "</S>"  </span>
\*   "<Ie>" "<Ip>" "<Il>" "<Ig>"  the <img .. class="contact-icon" /> of a category
\*   "<A"   <a href="https://      "A>"  ">      "</A>"  </a>
\*   "<SEP>" <span class="sep">
\* The data URI of an icon is taken to contain no match of any pattern.
ContactAtoms == {"w", "n", "@", "d", "li", "gh", "LI", "GH", "/", " ", "|"}
Categories == {"email", "phone", "linkedin", "github"}
\* atoms made of characters of [A-Za-z0-9._%+-], all in [A-Za-z0-9.-] too
LocalAtoms == {"w", "n", "d", "li", "gh", "LI", "GH"}
\* atoms that end in \.[A-Za-z]{2,} with a domain character before the dot
TldAtoms == {"d", "li", "gh"}
\* atoms of [A-Za-z] only
LetterAtoms == {"w", "LI", "GH"}
\* atoms of [\d\-\s]
PhoneAtoms == {"n", " "}
\* atoms and tokens of [^\s<|] only
TailAtoms == {"w", "n", "@", "d", "li", "gh", "LI", "GH", "/", "A>"}
\* document tokens: <p class="contact-info">, </p>, and another tag
DocTokens == {"P(", ")P", "BR"}

MaxOf(S) == CHOOSE x \in S : \A y \in S : y <= x

\* first index from i on whose token is not in S
RECURSIVE RunEnd(_, _, _)
RunEnd(c, i, S) == IF i <= Len(c) /\ c[i] \in S THEN RunEnd(c, i + 1, S) ELSE i

\* <span class="contact-item">[<img/>]g</span>
Item(g, img) == <<"<S>">> \o img \o g \o <<"</S>">>
\* <span class="contact-item"><img/><a href="https://g">g</a></span>
LinkedItem(g, img) ==
    <<"<S>">> \o img \o <<"<A">> \o g \o <<"A>">> \o g \o <<"</A>", "</S>">>

\* end (exclusive) of the match of
\* [A-Za-z0-9._%+-]+@[A-Za-z0-9.-]+\.[A-Za-z]{2,} that starts at i, 0 if none
EmailEnd(c, i) ==
    LET r == RunEnd(c, i, LocalAtoms)
        e == RunEnd(c, r + 1, LocalAtoms)
        ks == {k \in (r + 1)..(e - 1) : c[k] \in TldAtoms}
    IN  IF c[i] \in LocalAtoms /\ r <= Len(c) /\ c[r] = "@" /\ ks # {}
        THEN RunEnd(c, MaxOf(ks) + 1, LetterAtoms)
        ELSE 0

\* re.sub of the email pattern
RECURSIVE EmailSub(_, _, _)
EmailSub(c, i, img) ==
    IF i > Len(c) THEN <<>>
    ELSE LET e == EmailEnd(c, i)
         IN  IF e # 0
             THEN Item(SubSeq(c, i, e - 1), img) \o EmailSub(c, e, img)
             ELSE <<c[i]>> \o EmailSub(c, i + 1, img)

\* end (exclusive) of the match of \+?\d[\d\-\s]{6,}\d that starts at i, 0 if none
PhoneEnd(c, i) ==
    IF c[i] # "n" THEN 0
    ELSE MaxOf({k \in i..(RunEnd(c, i, PhoneAtoms) - 1) : c[k] = "n"}) + 1

\* re.sub of the phone pattern
RECURSIVE PhoneSub(_, _, _)
PhoneSub(c, i, img) ==
    IF i > Len(c) THEN <<>>
    ELSE LET e == PhoneEnd(c, i)
         IN  IF e # 0
             THEN Item(SubSeq(c, i, e - 1), img) \o PhoneSub(c, e, img)
             ELSE <<c[i]>> \o PhoneSub(c, i + 1, img)

\* re.sub of ((?:https?://)?(?:www\.)?<name>\.com[^\s<|]*)|(?:<Name>),
\* for LinkedIn and for GitHub: a URL gets a link when the icon exists, the
\* bare word never does (no "." in it)
RECURSIVE NetworkSub(_, _, _, _, _, _)
NetworkSub(c, i, dom, word, icon, img) ==
    IF i > Len(c) THEN <<>>
    ELSE IF c[i] = dom
         THEN LET e == RunEnd(c, i + 1, TailAtoms)
                  g == SubSeq(c, i, e - 1)
              IN  (IF icon THEN LinkedItem(g, img) ELSE Item(g, <<>>))
                      \o NetworkSub(c, e, dom, word, icon, img)
    ELSE IF c[i] = word
         THEN Item(<<word>>, img) \o NetworkSub(c, i + 1, dom, word, icon, img)
    ELSE <<c[i]>> \o NetworkSub(c, i + 1, dom, word, icon, img)

\* content.replace('|', '<span class="sep">|</span>')
RECURSIVE SepReplace(_)
SepReplace(c) ==
    IF c = <<>> THEN <<>>
    ELSE (IF Head(c) = "|" THEN <<"<SEP>", "|", "</S>">> ELSE <<Head(c)>>)
             \o SepReplace(Tail(c))

\* the <img> of a category whose icon file could be read, else nothing
IconImg(icons, cat, tok) == IF cat \in icons THEN <<tok>> ELSE <<>>

\* repl: the four passes in order, then the separators
Repl(content, icons) ==
    LET c1 == EmailSub(content, 1, IconImg(icons, "email", "<Ie>"))
        c2 == PhoneSub(c1, 1, IconImg(icons, "phone", "<Ip>"))
        c3 == NetworkSub(c2, 1, "li", "LI", "linkedin" \in icons,
                         IconImg(icons, "linkedin", "<Il>"))
        c4 == NetworkSub(c3, 1, "gh", "GH", "github" \in icons,
                         IconImg(icons, "github", "<Ig>"))
    IN  SepReplace(c4)

\* re.sub(r'(<p class="contact-info">)(.*?)(</p>)', repl, html, flags=re.S)
RECURSIVE ContactSub(_, _, _)
ContactSub(html, i, icons) ==
    IF i > Len(html) THEN <<>>
    ELSE LET closes == {j \in (i + 1)..Len(html) : html[j] = ")P"}
         IN  IF html[i] = "P(" /\ closes # {}
             THEN LET j == CHOOSE k \in closes : \A m \in closes : k <= m
                  IN  <<"P(">> \o Repl(SubSeq(html, i + 1, j - 1), icons) \o <<")P">>
                          \o ContactSub(html, j + 1, icons)
             ELSE <<html[i]>> \o ContactSub(html, i + 1, icons)

\* faulty variant of inject_contact_icons: the patterns run over the whole document
inject_contact_icons_everywhere(html, icons) ==
    IF html = <<>> THEN html ELSE Repl(html, icons)

inject_contact_icons(html, icons) ==
    IF html = <<>> THEN html ELSE ContactSub(html, 1, icons)

\* "john@mail.com | 12345678 | " and "12345678@mail.com | 12345678 | "
NamedPrefix == <<"w", "@", "d", " ", "|", " ", "n", " ", "|", " ">>
NumericPrefix == <<"n", "@", "d", " ", "|", " ", "n", " ", "|", " ">>
ContactPrefixes == {NamedPrefix, NumericPrefix}

\* documents handed to inject_contact_icons: one contact paragraph with any
\* content; one that starts with an email and a phone; any short document
ParagraphDocs ==
    {<<"P(">> \o b \o <<")P">> : b \in SeqsUpTo(ContactAtoms, MaxContactLen)}
PrefixedDocs ==
    {<<"P(">> \o p \o b \o <<")P">> :
        p \in ContactPrefixes, b \in SeqsUpTo(ContactAtoms, MaxContactLen)}
FrameDocs == SeqsUpTo(DocTokens \cup {"n"}, MaxDocLen)

\* every combination of icon files for the first and the last family of
\* documents, all icons or none for the second
InitContact ==
    /\ InitStores
    /\ threads = 1
    /\ \E h \in ParagraphDocs \cup PrefixedDocs \cup FrameDocs,
          ic \in SUBSET Categories :
           /\ h \in PrefixedDocs => ic \in {{}, Categories}
           /\ ci = [pc |-> "called", html |-> h, icons |-> ic, out |-> <<>>]

\* the call returns
ContactCall ==
    /\ ci.pc = "called"
    /\ ci' = [ci EXCEPT !.pc = "returned",
                        !.out = inject_contact_icons(ci.html, ci.icons)]
    /\ UNCHANGED <<req, users, resumes, files, nsub, threads, ufile, reviews>>

NextContact == ContactCall

SpecContact == InitContact /\ [][NextContact]_vars

\* ------------------------------------------------------- review feedback
\* request.get_json(force=True) raised, or gave something that is not a
\* dict, or 'feedback' is not a string: the handler body raises
BadBody == <<"bad">>
\* data.get('feedback'): absent/null, a string, or a body that raises
FeedbackVals == {NoneT, BadBody} \cup SeqsUpTo({"a", " "}, MaxTextLen)
EmptyFeedback == "Empty feedback"
ServiceUnavailable == "Feedback service unavailable"
ServerError == "Server error"

\* (data.get('feedback') or '').strip()
StrippedFeedback(raw) == Strip(OrEmpty(raw))

\* the payload append_review inserts into the remote reviews table
ReviewPayload(r) ==
    [user_id |-> r.user_id, review |-> StrippedFeedback(r.feedback),
     filename |-> r.filename]

\* what append_review can meet: Supabase not configured, an error in the
\* response, an exception of the client, or a stored row
AppendOutcomes == {"ok", "unconfigured", "error", "exception"}

\* faulty variant of ReviewResponse: success whatever append_review returned
ReviewResponseOptimistic(raw, out) ==
    IF raw = BadBody THEN [NoResp EXCEPT !.status = "json500", !.error = ServerError]
    ELSE IF StrippedFeedback(raw) = <<>>
         THEN [NoResp EXCEPT !.status = "json400", !.error = EmptyFeedback]
    ELSE [NoResp EXCEPT !.status = "json200"]

\* the JSON answer of submit_review
ReviewResponse(raw, out) ==
    IF raw = BadBody THEN [NoResp EXCEPT !.status = "json500", !.error = ServerError]
    ELSE IF StrippedFeedback(raw) = <<>>
         THEN [NoResp EXCEPT !.status = "json400", !.error = EmptyFeedback]
    ELSE IF out = "ok" THEN [NoResp EXCEPT !.status = "json200"]
    ELSE [NoResp EXCEPT !.status = "json503", !.error = ServiceUnavailable]

\* POST /submit_review arrives with its JSON body
ReviewStart(s) ==
    /\ Accepts(s)
    /\ Len(reviews) < MaxReviews
    /\ \E uid \in Callers, fb \in FeedbackVals, fn \in Filenames \cup {NoName} :
           req' = [req EXCEPT ![s] = [Fresh EXCEPT !.pc = "review", !.route = "review",
                                                   !.user_id = uid, !.feedback = fb,
                                                   !.filename = fn]]
    /\ UNCHANGED <<users, resumes, files, nsub, threads, ufile, reviews, ci>>

\* the body of submit_review, append_review included
SubmitReview(s) ==
    /\ req[s].pc = "review"
    /\ \E out \in AppendOutcomes :
           LET raw == req[s].feedback
               called == raw # BadBody /\ StrippedFeedback(raw) # <<>>
           IN  /\ reviews' = IF called /\ out = "ok"
                             THEN Append(reviews, ReviewPayload(req[s]))
                             ELSE reviews
               /\ req' = [req EXCEPT ![s].pc = "done",
                                     ![s].resp = ReviewResponse(raw, out)]
    /\ UNCHANGED <<users, resumes, files, nsub, threads, ufile, ci>>

NextReview ==
    \E s \in Slots :
        \/ ReviewStart(s)
        \/ SubmitReview(s)
        \/ Close(s)

SpecReview == Init /\ [][NextReview]_vars


\* ================================================================ claims
\* The submission states of the specification: pc "done" with resp.status
\* "rendered" is RENDERED; "input_error", "system_error" and "http500" are
\* FAILED.  The content store is `files`, the account store is `users` with
\* the remote `resumes` table.

\* ---------------------------------------------------------------------C1
\* C1: for every submission that reaches the render step, the markup handed
\* to create_pdf never contains the literal [[PROFILE_PHOTO]], however the
\* generated markup embeds it and whether or not there is a photo.
\* The code falsifies it: without a photo only the exact tag
\* <img src="[[PROFILE_PHOTO]]" class="profile-pic" /> is removed.
C1_NoPlaceholderAtRender ==
    \A s \in Slots : req[s].pc = "render" => ~HasPlaceholder(req[s].html)

\* ---------------------------------------------------------------------C2
\* C2: a submission whose job description is empty, or whose resolved
\* candidate text is empty, ends with the input-error response (error
\* "Missing data or job post." and the matching flash) without any call of
\* the generation service; a submission that goes on to the generation step
\* has a non-empty resolved text and a non-empty job description.
C2_InputError ==
    \A s \in Slots :
        LET r == req[s]
        IN  /\ r.resp.status = "input_error" =>
                  /\ r.pc = "done"
                  /\ ~Truthy(r.final_data) \/ ~Truthy(r.job_post)
                  /\ r.resp.error = MissingError
                  /\ r.resp.flash = MissingFlash
                  /\ r.resp.filename = 0
                  /\ r.gen_calls = 0
                  /\ r.render_calls = 0
            /\ r.pc = "sanitize" => Truthy(r.final_data) /\ Truthy(r.job_post)
            /\ r.gen_calls > 0 => r.resp.status # "input_error"

\* C2 happens: an input error for an empty job description with candidate text
C2_Witness ==
    \E s \in Slots :
        /\ req[s].resp.status = "input_error"
        /\ Truthy(req[s].final_data)
        /\ ~Truthy(req[s].job_post)

\* C2 happens: an input error for an empty resolved candidate text
C2_WitnessNoText ==
    \E s \in Slots :
        /\ req[s].resp.status = "input_error"
        /\ ~Truthy(req[s].final_data)
        /\ Truthy(req[s].job_post)

\* ---------------------------------------------------------------------C3
\* C3: when the generation service fails, the submission ends FAILED with the
\* system-error response, create_pdf is never called for it and no file of the
\* submission exists in the PDF folder.
C3_GenerationFailure ==
    \A s \in Slots :
        req[s].e.at = "generate" =>
            /\ req[s].pc = "done"
            /\ req[s].resp.status = "system_error"
            /\ req[s].resp.filename = 0
            /\ req[s].gen_calls = 1
            /\ req[s].render_calls = 0
            /\ req[s].sid \notin files

\* C3 happens: a submission whose generation call failed
C3_Witness ==
    \E s \in Slots :
        /\ req[s].e.at = "generate"
        /\ req[s].resp.status = "system_error"
        /\ req[s].gen_calls = 1

\* ---------------------------------------------------------------------C4
\* C4: the PDF folder holds a file of a submission only if that submission
\* reached RENDERED; a submission whose render failed leaves no file.
\* The code falsifies it: create_pdf opens (creates) the output file before
\* pisa runs, and nothing removes it when pisa reports an error.
C4_FileOnlyIfRendered ==
    \A s \in Slots :
        (req[s].route = "index" /\ req[s].sid \in files) =>
            req[s].resp.status = "rendered"

\* ---------------------------------------------------------------------C5
\* C5: the candidate text resolved for the generation service is (a) the
\* text extracted from the upload when that is non-empty; otherwise (b) the
\* retained text of the account (the remote active row, else the local
\* entry) when the caller is logged in, has retained text and uploaded
\* nothing; otherwise (c) the pasted text.  The retained text used in (b) is
\* text the account store holds for that account.
C5_Priority ==
    /\ [](\A s \in Slots :
            (req[s].pc = "resolve" /\ Truthy(req[s].retained)) =>
                /\ req[s].user_id # Anon
                /\ req[s].upload = ""
                /\ req[s].retained \in
                     {row.resume_text : row \in ActiveRows(resumes, req[s].user_id)}
                     \cup {users[req[s].user_id].resume_text})
    /\ [][\A s \in Slots :
            (req[s].pc = "resolve" /\ req'[s].pc = "sanitize") =>
                LET r == req[s]
                    fd == req'[s].final_data
                IN  IF r.upload # "" /\ Truthy(r.extracted)
                    THEN fd = r.extracted
                    ELSE IF /\ r.upload = ""
                            /\ r.user_id # Anon
                            /\ r.saved_resume
                            /\ Truthy(r.retained)
                         THEN fd = r.retained
                         ELSE fd \in PastedVals /\ fd # NoneT]_vars

\* C5 happens: a retained text (neither pasted nor extracted as such: the
\* space is a sanitized NUL) was resolved for generation
C5_Witness ==
    \E s \in Slots :
        /\ req[s].pc = "sanitize"
        /\ req[s].user_id # Anon
        /\ req[s].final_data \notin (PastedVals \cup ExtractedVals)
        /\ req[s].final_data = users[req[s].user_id].resume_text

\* ---------------------------------------------------------------------C6
\* C6: the retained text and filename an account already has change only in
\* a submission of that account whose upload was extracted to non-empty
\* text; an upload that yields no text leaves them unchanged.
\* The code falsifies it: set_user_resume_text(user_id, extracted or "", ..)
\* runs for every upload of a logged-in caller and stores "" and the new
\* filename when the extraction gave nothing.
C6_ChangeOnlyOnExtraction ==
    [][\A u \in Accounts :
          (HasSavedText(users, u) /\ users'[u] # users[u]) =>
              \E s \in Slots :
                  /\ req[s].route = "index"
                  /\ req[s].user_id = u
                  /\ req[s].upload # ""
                  /\ Truthy(req[s].extracted)]_vars

C8_CappedPrefix ==
    /\ [](/\ \A u \in Accounts :
               users[u].resume_text # NoneT =>
                   Len(users[u].resume_text) <= MAX_RESUME_TEXT
          /\ \A row \in resumes :
               /\ Len(row.resume_text) <= MAX_RESUME_TEXT
               /\ row.user_id \in Accounts)
    /\ [][/\ \A u \in Accounts :
               users'[u].resume_text # users[u].resume_text =>
                   \E s \in Slots :
                       /\ req[s].route = "index"
                       /\ req[s].user_id = u
                       /\ IsPrefix(users'[u].resume_text,
                                   Sanitize(OrEmpty(req[s].extracted)))
          /\ \A row \in resumes' :
               \/ \E old \in resumes :
                    /\ old.id = row.id
                    /\ old.user_id = row.user_id
                    /\ old.resume_text = row.resume_text
               \/ \E s \in Slots :
                    /\ req[s].route = "index"
                    /\ req[s].user_id = row.user_id
                    /\ IsPrefix(row.resume_text,
                                Strip(Sanitize(OrEmpty(req[s].extracted))))]_vars

\* C8 happens: an extracted text longer than the cap, with a control
\* character, was retained as its capped sanitized prefix
C8_Witness ==
    \E u \in Accounts :
        /\ users[u].resume_text = <<" ">>
        /\ \E row \in resumes : row.user_id = u /\ row.resume_text = <<"a">>

C10_StoreFailureNeverAborts ==
    \A s \in Slots : req[s].route = "index" => req[s].resp.status # "http500"

\* --------------------------------------------------------------------C11
\* C11: each submission moves through RECEIVED, DATA_RESOLVED, GENERATED,
\* ASSEMBLED, RENDERED in that order, no stage skipped or repeated, and ends
\* in exactly one of RENDERED and FAILED, after which no step of it occurs:
\* the generation call is made in DATA_RESOLVED only, the markup is
\* assembled in GENERATED only, create_pdf is called in ASSEMBLED only.
C11_StageOrder ==
    [][\A s \in Slots :
          LET Stage(r) ==
                  IF r.route # "index" THEN "NONE"
                  ELSE IF r.pc = "done"
                       THEN IF r.resp.status = "rendered" THEN "RENDERED" ELSE "FAILED"
                       ELSE IF r.pc \in {"sanitize", "generate"} THEN "DATA_RESOLVED"
                       ELSE IF r.pc = "assemble" THEN "GENERATED"
                       ELSE IF r.pc = "render" THEN "ASSEMBLED"
                       ELSE "RECEIVED"
              a == Stage(req[s])
              b == Stage(req'[s])
          IN  /\ \/ a = b
                 \/ <<a, b>> \in {<<"NONE", "RECEIVED">>,
                                  <<"RECEIVED", "DATA_RESOLVED">>,
                                  <<"DATA_RESOLVED", "GENERATED">>,
                                  <<"GENERATED", "ASSEMBLED">>,
                                  <<"ASSEMBLED", "RENDERED">>}
                 \/ a \notin {"RENDERED", "FAILED"} /\ b = "FAILED"
                 \/ a \in {"RENDERED", "FAILED"} /\ req'[s] = Fresh
              /\ (a \in {"RENDERED", "FAILED"} /\ req'[s] # req[s]) => req'[s] = Fresh
              /\ (a \notin {"NONE", "RENDERED", "FAILED"}) => req'[s].sid = req[s].sid
              /\ req'[s].gen_calls # req[s].gen_calls =>
                     a = "DATA_RESOLVED" \/ req'[s] = Fresh
              /\ (a = b /\ req'[s].html # req[s].html) => FALSE
              /\ (req'[s].html # req[s].html /\ b = "ASSEMBLED") => a = "GENERATED"
              /\ req'[s].render_calls # req[s].render_calls =>
                     a = "ASSEMBLED" \/ req'[s] = Fresh]_vars

\* C11 happens: a submission that went through every stage to RENDERED
C11_Witness ==
    \E s \in Slots :
        /\ req[s].route = "index"
        /\ req[s].pc = "done"
        /\ req[s].resp.status = "rendered"
        /\ req[s].gen_calls = 1
        /\ req[s].render_calls = 1
        /\ req[s].sid \in files

\* --------------------------------------------------------------------C12
\* C12: no retries: within one submission the generation service is called
\* at most once and create_pdf at most once, and once a stage has failed
\* the submission is over: a failed generation is never followed by a
\* render, an input error by neither call.
C12_NoRetries ==
    \A s \in Slots :
        LET r == req[s]
        IN  /\ r.gen_calls <= 1
            /\ r.render_calls <= 1
            /\ r.render_calls <= r.gen_calls
            /\ r.e # NoErr =>
                  /\ r.pc = "done"
                  /\ r.resp.status = "system_error"
                  /\ r.e.at = "generate" => r.gen_calls = 1 /\ r.render_calls = 0
                  /\ r.e.at = "render" => r.gen_calls = 1 /\ r.render_calls = 1
            /\ r.resp.status \in {"input_error", "http500"} =>
                  r.gen_calls = 0 /\ r.render_calls = 0

\* C12 happens: a submission whose render failed after its one generation
C12_Witness ==
    \E s \in Slots :
        /\ req[s].e.at = "render"
        /\ req[s].pc = "done"
        /\ req[s].gen_calls = 1
        /\ req[s].render_calls = 1

C14_LastWriteWins ==
    /\ \A s \in Slots : req[s].route = "index" => req[s].resp.status # "http500"
    /\ (nsub >= 2 /\ \A s \in Slots : req[s].pc \in {"idle", "done"}) =>
           /\ ufile = "json"
           /\ users["u1"] \in
                {[resume_text |-> Cap(Sanitize(TextOf(f))), resume_name |-> f] :
                     f \in Filenames}

\* --------------------------------------------------------------------C15
\* C15: for a contact paragraph that starts with an email and a phone
\* number, followed or not by further pipe-separated text, removing the tags
\* of the result gives back the original content, separators included;
\* and when the paragraph is just the email and the phone, the result holds
\* exactly two decorated spans and every pipe is still there, restyled.
\* The code falsifies it: the phone pattern matches a digit run inside the
\* email span, and the GitHub pattern matches inside the href that the
\* LinkedIn pass has written.
C15_WrappedOnceRoundTrip ==
    (ci.pc = "returned" /\ ci.html \in PrefixedDocs) =>
        LET inner(h) == SubSeq(h, 2, Len(h) - 1)
            Tags == {"<S>", "</S>", "<Ie>", "<Ip>", "<Il>", "<Ig>", "</A>", "<SEP>"}
            RECURSIVE StripTags(_, _)
            StripTags(h, inTag) ==
                IF h = <<>> THEN <<>>
                ELSE IF inTag
                     THEN StripTags(Tail(h), Head(h) \notin Tags \cup {"A>"})
                ELSE IF Head(h) = "<A" THEN StripTags(Tail(h), TRUE)
                ELSE IF Head(h) \in Tags THEN StripTags(Tail(h), FALSE)
                ELSE <<Head(h)>> \o StripTags(Tail(h), FALSE)
            count(h, t) == Cardinality({i \in 1..Len(h) : h[i] = t})
        IN  /\ StripTags(inner(ci.out), FALSE) = inner(ci.html)
            /\ inner(ci.html) \in ContactPrefixes =>
                   /\ count(ci.out, "<S>") = 2
                   /\ count(ci.out, "<SEP>") = count(ci.html, "|")

\* --------------------------------------------------------------------C16
\* C16: in the result no decorated span lies inside another one, and the
\* href a category has written holds nothing but the matched text: what an
\* earlier category consumed or inserted is never wrapped by a later one.
\* The code falsifies it: each pass runs over the whole output of the
\* passes before it.
C16_NoRematch ==
    ci.pc = "returned" =>
        LET out == ci.out
            depth(k) == Cardinality({i \in 1..k : out[i] \in {"<S>", "<SEP>"}})
                            - Cardinality({i \in 1..k : out[i] = "</S>"})
        IN  /\ \A k \in 1..Len(out) : depth(k) <= 1
            /\ \A i \in 1..Len(out) :
                   out[i] = "<A" =>
                       \E j \in (i + 1)..Len(out) :
                           /\ out[j] = "A>"
                           /\ \A m \in (i + 1)..(j - 1) : out[m] \in ContactAtoms

\* --------------------------------------------------------------------C17
\* C17: the result differs from the argument only between the opening tag
\* of a contact paragraph and the first closing tag after it; a document
\* without such a paragraph comes back unchanged.
C17_OutsideUnchanged ==
    ci.pc = "returned" =>
        LET RECURSIVE Outside(_)
            Outside(h) ==
                IF h = <<>> THEN <<>>
                ELSE IF Head(h) = "P(" /\ \E j \in 2..Len(h) : h[j] = ")P"
                     THEN LET j == CHOOSE k \in 2..Len(h) :
                                       h[k] = ")P" /\ \A m \in 2..(k - 1) : h[m] # ")P"
                          IN  <<"P(", ")P">> \o Outside(SubSeq(h, j + 1, Len(h)))
                ELSE <<Head(h)>> \o Outside(Tail(h))
        IN  /\ Outside(ci.out) = Outside(ci.html)
            /\ Outside(ci.html) = ci.html => ci.out = ci.html

\* a phone number outside the paragraph is left alone, the one inside is wrapped
C17_Witness ==
    /\ ci.pc = "returned"
    /\ ci.html = <<"n", "P(", "n", ")P">>
    /\ ci.icons = {"phone"}
    /\ ci.out = <<"n", "P(", "<S>", "<Ip>", "n", "</S>", ")P">>

\* --------------------------------------------------------------------C18
\* C18: with a photo and a generated markup that contains the placeholder,
\* the assembled markup holds exactly one reference to the encoded photo,
\* however many times the placeholder occurs.
\* The code falsifies it: html.replace('[[PROFILE_PHOTO]]', base64_photo)
\* substitutes every occurrence.
C18_OnePhotoReference ==
    [][\A s \in Slots :
          (/\ req[s].pc = "assemble"
           /\ req'[s].pc = "render"
           /\ req[s].photo = "data"
           /\ HasPlaceholder(req[s].html)) =>
              LET out == req'[s].html
              IN  Cardinality({i \in 1..Len(out) :
                                  out[i] \in {"IMGB64", "B64", "IMGTAG"}}) = 1]_vars

\* --------------------------------------------------------------------C19
\* C19: with a photo and a generated markup without the placeholder but
\* with a name heading, the assembled markup holds exactly one inserted
\* image element, immediately before the first <h1>.
\* The code falsifies it: html.replace('<h1>', img_tag + '<h1>') inserts the
\* image before every <h1>.
C19_OneImageBeforeFirstHeading ==
    [][\A s \in Slots :
          (/\ req[s].pc = "assemble"
           /\ req'[s].pc = "render"
           /\ req[s].photo = "data"
           /\ ~HasPlaceholder(req[s].html)
           /\ \E i \in 1..Len(req[s].html) : req[s].html[i] = "H1") =>
              LET out == req'[s].html
                  imgs == {i \in 1..Len(out) : out[i] \in {"IMGB64", "B64", "IMGTAG"}}
                  first == CHOOSE i \in 1..Len(out) :
                               out[i] = "H1" /\ \A j \in 1..(i - 1) : out[j] # "H1"
              IN  imgs = {first - 1}]_vars

\* --------------------------------------------------------------------C20
\* C20: submit_review answers success exactly when the stripped feedback
\* is non-empty and the row was appended to the remote reviews table; an
\* empty feedback is answered 400 without an append; nothing is ever
\* written to the local stores (users.json, the PDF folder).
C20_SuccessIffAppended ==
    [][\A s \in Slots :
          (req[s].pc = "review" /\ req'[s].pc = "done") =>
              LET raw == req[s].feedback
                  text == Strip(OrEmpty(raw))
                  nonEmpty == raw # BadBody /\ text # <<>>
                  row == [user_id |-> req[s].user_id, review |-> text,
                          filename |-> req[s].filename]
                  appended == reviews' = Append(reviews, row)
              IN  /\ req'[s].resp.status = "json200" <=> (nonEmpty /\ appended)
                  /\ ~appended => reviews' = reviews
                  /\ (raw # BadBody /\ text = <<>>) =>
                         /\ req'[s].resp.status = "json400"
                         /\ reviews' = reviews
                  /\ UNCHANGED <<users, ufile, files, resumes>>]_vars

\* a stored review has been acknowledged, and the table holds its stripped text
C20_Witness ==
    \E s \in Slots :
        /\ req[s].pc = "done"
        /\ req[s].route = "review"
        /\ req[s].resp.status = "json200"
        /\ Len(req[s].feedback) > 1
        /\ Head(req[s].feedback) = " "
        /\ reviews # <<>>
        /\ reviews[Len(reviews)].review = <<"a">>

\* --------------------------------------------------------------------C21
\* C21: a photo that cannot be processed gives None and no exception: the
\* step that processes it ends in the input check or goes on, never in a
\* 500 or in the error page; and the assembly of such a submission gives
\* exactly what it gives without a photo: the prompted placeholder image
\* element is removed and the submission goes on to the renderer.
C21_BadPhotoAsNoPhoto ==
    [][\A s \in Slots :
          /\ (req[s].pc = "resolve" /\ req'[s] # req[s]) =>
                 /\ req'[s].photo \in {"", "None", "data"}
                 /\ req'[s].resp.status \in {"none", "input_error"}
          /\ (req[s].pc = "assemble" /\ req[s].photo = "None" /\ req'[s] # req[s]) =>
                 /\ req'[s] = [req[s] EXCEPT
                                 !.pc = "render", !.photo = "",
                                 !.html = InjectContactIcons(RemovePlaceholderImg(req[s].html))]
                 /\ \A i \in 1..Len(req'[s].html) : req'[s].html[i] # "IMGPH"]_vars

\* a submission whose photo failed to decode is about to be assembled from a
\* markup with the prompted placeholder element
C21_Witness ==
    \E s \in Slots :
        /\ req[s].pc = "assemble"
        /\ req[s].photo = "None"
        /\ \E i \in 1..Len(req[s].html) : req[s].html[i] = "IMGPH"

\* --------------------------------------------------------------------C22
\* C22: without a photo, when the generated markup holds the placeholder
\* only in the prompted element <img src="[[PROFILE_PHOTO]]"
\* class="profile-pic" />, the assembly removes every such element, keeps
\* all other tokens in their order (the contact paragraph going through
\* inject_contact_icons), and no placeholder is left for the renderer.
C22_PromptedElementRemoved ==
    [][\A s \in Slots :
          (/\ req[s].pc = "assemble"
           /\ req'[s].pc = "render"
           /\ req[s].photo = ""
           /\ \E i \in 1..Len(req[s].html) : req[s].html[i] = "IMGPH"
           /\ \A i \in 1..Len(req[s].html) : req[s].html[i] # "PH") =>
              LET in == req[s].html
                  out == req'[s].html
                  rest == SelectSeq(in, LAMBDA t : t # "IMGPH")
              IN  /\ Len(out) = Len(rest)
                  /\ \A i \in 1..Len(out) :
                         out[i] = IF rest[i] = "CONTACT" THEN "CONTACT_ICONS" ELSE rest[i]
                  /\ \A i \in 1..Len(out) : out[i] \notin {"IMGPH", "PH", "IMGB64", "B64", "IMGTAG"}]_vars

\* a submission without a photo is about to be assembled from a markup with
\* the prompted placeholder element before the name heading
C22_Witness ==
    \E s \in Slots :
        /\ req[s].pc = "assemble"
        /\ req[s].photo = ""
        /\ req[s].html = <<"IMGPH", "H1">>

\* --------------------------------------------------------------------C23
\* C23: a category whose icon file is missing gets no <img> in the result,
\* and taking one category's icon away changes nothing else: the result
\* holds as many decorated spans as with the icon.
\* The code falsifies it: with linkedin.png present the LinkedIn pass writes
\* the URL a second time, into an href, and the GitHub pass wraps what
\* it matches in both copies.
C23_IconsIndependent ==
    ci.pc = "returned" =>
        LET spans(h) == Cardinality({i \in 1..Len(h) : h[i] = "<S>"})
            img == [c \in Categories |->
                        CASE c = "email" -> "<Ie>" [] c = "phone" -> "<Ip>"
                          [] c = "linkedin" -> "<Il>" [] c = "github" -> "<Ig>"]
        IN  /\ \A c \in Categories \ ci.icons :
                   \A i \in 1..Len(ci.out) : ci.out[i] # img[c]
            /\ \A c \in ci.icons :
                   spans(inject_contact_icons(ci.html, ci.icons \ {c})) = spans(ci.out)

\* --------------------------------------------------------------------C24
\* C24: running image injection and inject_contact_icons once more on the
\* assembled markup, with the same photo, gives the assembled markup again.
\* The code falsifies it: once the placeholder has been replaced the markup
\* no longer holds it, so a second run takes the fallback branch and puts
\* an image before every <h1>.
C24_Idempotent ==
    [][\A s \in Slots :
          (req[s].pc = "assemble" /\ req'[s].pc = "render") =>
              InjectContactIcons(ImageInjection(req'[s].html, req[s].photo))
                  = req'[s].html]_vars

\* --------------------------------------------------------------------C25
\* C25: once delete_resume has answered an account holder "Saved resume
\* removed" (users.json written in full), users.json holds neither a
\* retained text nor a retained filename for that account.
\* The code falsifies it: the second definition of remove_user_resume is
\* the one in force, and it deletes the key 'resume' only.
C25_DeleteForgets ==
    \A s \in Slots :
        (/\ req[s].pc = "done"
         /\ req[s].route = "delete"
         /\ req[s].resp.flash = RemovedFlash
         /\ Readable) =>
            /\ users[req[s].user_id].resume_text = NoneT
            /\ users[req[s].user_id].resume_name = NoName

\* --------------------------------------------------------------------C26
\* C26 (under SpecAccounts): when the submissions of two different
\* accounts, each with a successfully extracted upload, ran concurrently and
\* both were rendered, users.json (if it is a readable dict) holds for each
\* of the two accounts a text and a filename of its own upload.
\* The code falsifies it: set_user_resume_text loads the whole dict, changes
\* one entry and writes the whole dict back; the later writer puts back the
\* dict it loaded before the other account's write.
C26_NoLostUpdate ==
    (/\ \A s \in Slots : req[s].pc = "done" /\ req[s].resp.status = "rendered"
     /\ req[1].user_id # req[2].user_id
     /\ Readable) =>
        \A s \in Slots :
            users[req[s].user_id] \in
                {[resume_text |-> Cap(Sanitize(TextOf(f))), resume_name |-> f] :
                     f \in Filenames}

\* --------------------------------------------------------------------C27
\* C27: the remote resumes table never holds two rows of one account that
\* are both marked active.
\* The code falsifies it: the update that deactivates the previous rows is
\* in a try whose except branch does nothing, and the insert of the new
\* active row follows whether or not the update went through.
C27_OneActiveRow ==
    \A u \in Accounts : Cardinality(ActiveRows(resumes, u)) <= 1

====
